---- MODULE Spec2Model ----
(***************************************************************************)
(* A model of src/components/VideoPlayerManager.js: the <video> element    *)
(* the component builds, the methods createVideoFunctions puts on it, the  *)
(* click and dblclick listeners, the source element's onerror handler and  *)
(* the play/pause feedback icons with their setTimeout callbacks.          *)
(*                                                                         *)
(* Numbers.  JavaScript numbers are modelled in fixed point:               *)
(*   volume        counts units of 0.01 / VolumeSubdivisions,              *)
(*   playbackRate  counts units of 0.25 / RateSubdivisions,                *)
(*   time          counts milliseconds.                                    *)
(* Binary floating point error is not modelled.                            *)
(***************************************************************************)
EXTENDS Integers, Sequences, FiniteSets

VARIABLES
    currentTime,    \* video.currentTime, in seconds
    paused,         \* video.paused
    volume,         \* video.volume
    playbackRate,   \* video.playbackRate
    muted,          \* video.muted
    present,        \* the vendor-prefixed properties the element and its document have
    fullscreen,     \* TRUE iff the document shows an element in fullscreen
    cssText,        \* style.cssText of #pauseFeedback and of #playFeedback
    timers,         \* the pending setTimeout callbacks, oldest first
    shown,          \* calls of interfaceManager.showFailureMessage so far
    errors,         \* error events the source element has received so far
    clicks,         \* click events of the double-click gesture under way
    gestureToggles, \* togglePlayPause calls made by those click events
    lastOp,         \* the operation that ran last
    trace,          \* the calls that operation made, in order
    steps           \* operations run so far, where a specification counts them

vars == <<currentTime, paused, volume, playbackRate, muted, present, fullscreen,
          cssText, timers, shown, errors, clicks, gestureToggles, lastOp, trace, steps>>

video == <<currentTime, paused, volume, playbackRate, muted>>
page == <<present, fullscreen>>
feedbacks == <<cssText, timers>>
failures == <<shown, errors>>
gesture == <<clicks, gestureToggles>>

----------------------------------------------------------------------------
(* Bounds of the model *)

\* a volume of 0.01 is VolumeSubdivisions units
VolumeSubdivisions == 10
\* a playback rate of 0.25 is RateSubdivisions units
RateSubdivisions == 4
\* the largest playback rate SpecSpeed starts from, in quarters (16 is 4.0)
MaxRateInput == 16
\* the largest number of seconds a seek is called with
MaxSeek == 1
\* the time one Tick lets pass, in milliseconds
TimeStep == 250
\* the number of operations Spec and SpecFullScreen run
MaxSteps == 4

Min(a, b) == IF a < b THEN a ELSE b
Max(a, b) == IF a > b THEN a ELSE b

\* the volume 1.0 and the playback rate 1.0, in the model's units
FullVolume == 100 * VolumeSubdivisions
NormalRate == 4 * RateSubdivisions

----------------------------------------------------------------------------
(* createVideoFunctions: volume *)

\* a plausible slip: Math.floor in place of Math.round
roundBy2Decimals_floor(number) ==
    (number \div VolumeSubdivisions) * VolumeSubdivisions

\* Math.round(number * 100) / 100; Math.round(x) is floor(x + 1/2)
roundBy2Decimals(number) ==
    ((2 * number + VolumeSubdivisions) \div (2 * VolumeSubdivisions)) * VolumeSubdivisions

\* Math.min(roundBy2Decimals(this.volume + 0.05), 1)
increaseVolumeBy5Percent(v) ==
    Min(roundBy2Decimals(v + 5 * VolumeSubdivisions), FullVolume)

\* Math.max(0, roundBy2Decimals(this.volume - 0.05))
decreaseVolumeBy5Percent(v) ==
    Max(0, roundBy2Decimals(v - 5 * VolumeSubdivisions))

(* createVideoFunctions: speed *)

\* a plausible slip: the clamp of increaseSpeed left out
increaseSpeed_unclamped(rate) == rate + RateSubdivisions

\* Math.min(this.playbackRate + 0.25, 2)
increaseSpeed(rate) == Min(rate + RateSubdivisions, 8 * RateSubdivisions)

\* Math.max(0.25, this.playbackRate - 0.25)
decreaseSpeed(rate) == Max(RateSubdivisions, rate - RateSubdivisions)

----------------------------------------------------------------------------
(* createVideoFunctions: seek and mute *)

\* this.currentTime += seconds
goForward(time, seconds) == time + seconds

\* this.currentTime -= seconds
goBack(time, seconds) == time - seconds

\* this.currentTime = seconds
goToSpecificTime(time, seconds) == seconds

\* this.muted = !this.muted
toggleMuteUnmuteAudio(m) == ~m

----------------------------------------------------------------------------
(* togglePlayPause and the togglePlayPause listener of enablePlayPauseFeedback *)

Feedbacks == {"pauseFeedback", "playFeedback"}

\* the delay handed to setTimeout, in milliseconds
FeedbackDelay == 500

\* a plausible slip: the event dispatched before the play state is changed
togglePlayPause_dispatchFirst(isPaused) ==
    <<"dispatchEvent", IF isPaused THEN "play" ELSE "pause">>

\* the calls togglePlayPause makes on the element, in order
togglePlayPause(isPaused) ==
    <<IF isPaused THEN "play" ELSE "pause", "dispatchEvent">>

\* a plausible slip: the two selectors exchanged
feedbackSelector_swapped(isVideoPaused) ==
    IF isVideoPaused THEN "playFeedback" ELSE "pauseFeedback"

\* isVideoPaused ? "#pauseFeedback" : "#playFeedback"
feedbackSelector(isVideoPaused) ==
    IF isVideoPaused THEN "pauseFeedback" ELSE "playFeedback"

\* updateVisualFeedback: show the selected icon, and set the timer that hides it
updateVisualFeedback(isVideoPaused, st) ==
    LET feedback == feedbackSelector(isVideoPaused)
    IN  [st EXCEPT !.cssText = [@ EXCEPT ![feedback] = ""],
                   !.timers = Append(@, [feedback |-> feedback,
                                         remaining |-> FeedbackDelay])]

----------------------------------------------------------------------------
(* createVideoFunctions: fullscreen *)

RequestFunctions ==
    {"webkitRequestFullscreen", "webkitRequestFullScreen",
     "mozRequestFullScreen", "msRequestFullscreen"}
ExitFunctions == {"webkitExitFullscreen", "mozCancelFullScreen", "msExitFullscreen"}
VendorProperties == RequestFunctions \cup ExitFunctions \cup {"webkitFullscreenElement"}

\* the properties of three kinds of browser
WebkitBrowser ==
    {"webkitRequestFullscreen", "webkitRequestFullScreen", "webkitExitFullscreen",
     "webkitFullscreenElement"}
MozBrowser == {"mozRequestFullScreen", "mozCancelFullScreen"}
MsBrowser == {"msRequestFullscreen", "msExitFullscreen"}

\* the value read from this.ownerDocument.webkitFullscreenElement
webkitFullscreenElement(props, fs) ==
    IF "webkitFullscreenElement" \notin props THEN "undefined"
    ELSE IF fs THEN "element" ELSE "null"

\* this.ownerDocument.webkitFullscreenElement !== null
isFullScreenModeEnabled(props, fs) == webkitFullscreenElement(props, fs) # "null"

\* the vendor function enterFullScreenMode calls: none when no test succeeds
enterFullScreenMode(props) ==
    IF "webkitRequestFullscreen" \in props THEN <<"webkitRequestFullScreen">>
    ELSE IF "mozRequestFullScreen" \in props THEN <<"mozRequestFullScreen">>
    ELSE IF "msRequestFullscreen" \in props THEN <<"msRequestFullscreen">>
    ELSE <<>>

\* the vendor function exitFullScreenMode calls: none when no test succeeds
exitFullScreenMode(props) ==
    IF "webkitExitFullscreen" \in props THEN <<"webkitExitFullscreen">>
    ELSE IF "mozCancelFullScreen" \in props THEN <<"mozCancelFullScreen">>
    ELSE IF "msExitFullscreen" \in props THEN <<"msExitFullscreen">>
    ELSE <<>>

\* a plausible slip: the two branches exchanged
toggleFullScreenMode_swapped(props, fs) ==
    IF isFullScreenModeEnabled(props, fs)
    THEN <<"enterFullScreenMode">>
    ELSE <<"exitFullScreenMode">>

\* the method toggleFullScreenMode calls
toggleFullScreenMode(props, fs) ==
    IF isFullScreenModeEnabled(props, fs)
    THEN <<"exitFullScreenMode">>
    ELSE <<"enterFullScreenMode">>

----------------------------------------------------------------------------
(* The listeners *)

\* a plausible slip: the handler left empty
onerror_empty == <<>>

\* srcTag.onerror: self.interfaceManager.showFailureMessage()
onerror == <<"showFailureMessage">>

\* a plausible slip: the click listener waits for the dblclick and does nothing
onClick_debounced == <<>>

\* the click listener: this.togglePlayPause()
onClick == <<"togglePlayPause">>

\* a plausible slip: the dblclick listener undoes the clicks' toggles
onDblClick_toggling(props, fs) ==
    <<"togglePlayPause">> \o toggleFullScreenMode(props, fs)

\* the dblclick listener: the body of toggleFullScreenMode, repeated
onDblClick(props, fs) ==
    IF isFullScreenModeEnabled(props, fs)
    THEN <<"exitFullScreenMode">>
    ELSE <<"enterFullScreenMode">>

----------------------------------------------------------------------------
(* Running a handler: every call it makes, in order, to its end *)

RECURSIVE RunCalls(_, _)

\* One call.  play() and pause() set the paused flag at once; dispatchEvent
\* runs the togglePlayPause listener before it returns; a request function the
\* element has puts the document in fullscreen, an exit function the document
\* has ends it; calling a property that is absent throws a TypeError, which
\* ends the handler.
Call(name, st) ==
    LET s == [st EXCEPT !.trace = Append(@, name)]
    IN  CASE name = "play" -> [s EXCEPT !.paused = FALSE]
          [] name = "pause" -> [s EXCEPT !.paused = TRUE]
          [] name = "dispatchEvent" -> updateVisualFeedback(s.paused, s)
          [] name = "showFailureMessage" -> [s EXCEPT !.shown = @ + 1]
          [] name = "togglePlayPause" -> RunCalls(togglePlayPause(s.paused), s)
          [] name = "toggleFullScreenMode" ->
                RunCalls(toggleFullScreenMode(present, s.fullscreen), s)
          [] name = "enterFullScreenMode" -> RunCalls(enterFullScreenMode(present), s)
          [] name = "exitFullScreenMode" -> RunCalls(exitFullScreenMode(present), s)
          [] name \in (RequestFunctions \cup ExitFunctions) \ present ->
                [s EXCEPT !.trace = Append(@, "TypeError"), !.thrown = TRUE]
          [] name \in RequestFunctions \cap present -> [s EXCEPT !.fullscreen = TRUE]
          [] name \in ExitFunctions \cap present -> [s EXCEPT !.fullscreen = FALSE]
          [] OTHER -> s

RunCalls(calls, st) ==
    IF calls = <<>> \/ st.thrown THEN st
    ELSE RunCalls(Tail(calls), Call(Head(calls), st))

\* the number of times a call occurs in a trace
Count(name, calls) == Cardinality({i \in DOMAIN calls : calls[i] = name})

\* the handler `op` runs `calls`: the state it leaves
Handle(op, calls) ==
    LET st == RunCalls(calls, [paused |-> paused, cssText |-> cssText,
                               timers |-> timers, fullscreen |-> fullscreen,
                               shown |-> shown, trace |-> <<>>, thrown |-> FALSE])
    IN  /\ paused' = st.paused
        /\ cssText' = st.cssText
        /\ timers' = st.timers
        /\ fullscreen' = st.fullscreen
        /\ shown' = st.shown
        /\ trace' = st.trace
        /\ lastOp' = op

\* a method that only assigns a property of the element
Assign(op) ==
    /\ lastOp' = op
    /\ trace' = <<>>
    /\ UNCHANGED <<paused, page, feedbacks, failures, gesture>>

----------------------------------------------------------------------------
(* The operations *)

GoForward(seconds) ==
    /\ currentTime' = goForward(currentTime, seconds)
    /\ Assign("goForward")
    /\ UNCHANGED <<volume, playbackRate, muted>>

GoBack(seconds) ==
    /\ currentTime' = goBack(currentTime, seconds)
    /\ Assign("goBack")
    /\ UNCHANGED <<volume, playbackRate, muted>>

GoToSpecificTime(seconds) ==
    /\ currentTime' = goToSpecificTime(currentTime, seconds)
    /\ Assign("goToSpecificTime")
    /\ UNCHANGED <<volume, playbackRate, muted>>

IncreaseVolumeBy5Percent ==
    /\ volume' = increaseVolumeBy5Percent(volume)
    /\ Assign("increaseVolumeBy5Percent")
    /\ UNCHANGED <<currentTime, playbackRate, muted>>

DecreaseVolumeBy5Percent ==
    /\ volume' = decreaseVolumeBy5Percent(volume)
    /\ Assign("decreaseVolumeBy5Percent")
    /\ UNCHANGED <<currentTime, playbackRate, muted>>

IncreaseSpeed ==
    /\ playbackRate' = increaseSpeed(playbackRate)
    /\ Assign("increaseSpeed")
    /\ UNCHANGED <<currentTime, volume, muted>>

DecreaseSpeed ==
    /\ playbackRate' = decreaseSpeed(playbackRate)
    /\ Assign("decreaseSpeed")
    /\ UNCHANGED <<currentTime, volume, muted>>

ToggleMuteUnmuteAudio ==
    /\ muted' = toggleMuteUnmuteAudio(muted)
    /\ Assign("toggleMuteUnmuteAudio")
    /\ UNCHANGED <<currentTime, volume, playbackRate>>

TogglePlayPause ==
    /\ Handle("togglePlayPause", <<"togglePlayPause">>)
    /\ UNCHANGED <<currentTime, volume, playbackRate, muted, present, errors, gesture>>

ToggleFullScreenMode ==
    /\ Handle("toggleFullScreenMode", <<"toggleFullScreenMode">>)
    /\ UNCHANGED <<currentTime, volume, playbackRate, muted, present, errors, gesture>>

EnterFullScreenMode ==
    /\ Handle("enterFullScreenMode", <<"enterFullScreenMode">>)
    /\ UNCHANGED <<currentTime, volume, playbackRate, muted, present, errors, gesture>>

ExitFullScreenMode ==
    /\ Handle("exitFullScreenMode", <<"exitFullScreenMode">>)
    /\ UNCHANGED <<currentTime, volume, playbackRate, muted, present, errors, gesture>>

\* The browser delivers a click event to the video.  `quick` says that it is
\* the second click of a double-click gesture.
Click(quick) ==
    /\ quick => clicks = 1
    /\ Handle("click", onClick)
    /\ clicks' = IF quick THEN 2 ELSE 1
    /\ gestureToggles' = (IF quick THEN gestureToggles ELSE 0)
                            + Count("togglePlayPause", trace')
    /\ UNCHANGED <<currentTime, volume, playbackRate, muted, present, errors>>

\* The browser delivers the dblclick event that follows the gesture's two
\* click events.
DblClick ==
    /\ clicks = 2
    /\ Handle("dblclick", onDblClick(present, fullscreen))
    /\ clicks' = 3
    /\ UNCHANGED <<currentTime, volume, playbackRate, muted, present, errors,
                   gestureToggles>>

\* The source element receives an error event: the media failed to load.
SourceError ==
    /\ errors' = errors + 1
    /\ Handle("error", onerror)
    /\ UNCHANGED <<currentTime, volume, playbackRate, muted, present, gesture>>

\* Time passes, but not beyond the moment a pending callback is due.
Tick ==
    /\ timers # <<>>
    /\ \A i \in DOMAIN timers : timers[i].remaining > 0
    /\ timers' = [i \in DOMAIN timers |->
                    [timers[i] EXCEPT !.remaining = Max(0, @ - TimeStep)]]
    /\ lastOp' = "tick"
    /\ trace' = <<>>
    /\ UNCHANGED <<video, page, cssText, failures, gesture>>

\* The oldest callback is due: feedback.style.cssText = "display: none;"
Timeout ==
    /\ timers # <<>>
    /\ Head(timers).remaining = 0
    /\ cssText' = [cssText EXCEPT ![Head(timers).feedback] = "display: none;"]
    /\ timers' = Tail(timers)
    /\ lastOp' = "timeout"
    /\ trace' = <<"setTimeout callback">>
    /\ UNCHANGED <<video, page, failures, gesture>>

----------------------------------------------------------------------------
(* The component, from its construction on *)

\* The constructor leaves both icons created with style="display: none;", no
\* timer pending, and nothing called yet.
Constructed ==
    /\ currentTime = 0
    /\ muted = FALSE
    /\ fullscreen = FALSE
    /\ cssText = [f \in Feedbacks |-> "display: none;"]
    /\ timers = <<>>
    /\ shown = 0
    /\ errors = 0
    /\ clicks = 0
    /\ gestureToggles = 0
    /\ lastOp = "VideoPlayerManager"
    /\ trace = <<>>
    /\ steps = 0

\* A new video element has volume 1 and playback rate 1; autoplay may or may
\* not have started it.
Init ==
    /\ Constructed
    /\ paused \in BOOLEAN
    /\ volume = FullVolume
    /\ playbackRate = NormalRate
    /\ present \in {WebkitBrowser, MozBrowser, MsBrowser}

Counted(A) == steps < MaxSteps /\ A /\ steps' = steps + 1

Next ==
    \/ \E seconds \in 1..MaxSeek : Counted(GoForward(seconds))
    \/ \E seconds \in 1..MaxSeek : Counted(GoBack(seconds))
    \/ \E seconds \in 0..MaxSeek : Counted(GoToSpecificTime(seconds))
    \/ Counted(IncreaseVolumeBy5Percent)
    \/ Counted(DecreaseVolumeBy5Percent)
    \/ Counted(IncreaseSpeed)
    \/ Counted(DecreaseSpeed)
    \/ Counted(ToggleMuteUnmuteAudio)
    \/ Counted(TogglePlayPause)
    \/ Counted(ToggleFullScreenMode)
    \/ Counted(EnterFullScreenMode)
    \/ Counted(ExitFullScreenMode)
    \/ \E quick \in BOOLEAN : Counted(Click(quick))
    \/ Counted(DblClick)
    \/ Counted(SourceError)
    \/ Tick /\ UNCHANGED steps
    \/ Timeout /\ UNCHANGED steps

Spec == Init /\ [][Next]_vars

----------------------------------------------------------------------------
(* The volume methods, from every volume the element can hold *)

InitVolume ==
    /\ Constructed
    /\ paused = TRUE
    /\ volume \in 0..FullVolume
    /\ playbackRate = NormalRate
    /\ present = WebkitBrowser

NextVolume ==
    \/ IncreaseVolumeBy5Percent /\ UNCHANGED steps
    \/ DecreaseVolumeBy5Percent /\ UNCHANGED steps

SpecVolume == InitVolume /\ [][NextVolume]_vars

----------------------------------------------------------------------------
(* The speed methods, from every playback rate from 0 to MaxRateInput        *)
(* quarters: playbackRate is a writable property of the element, which the  *)
(* constructor hands to the shortcut manager and appends to the page        *)

InitSpeed ==
    /\ Constructed
    /\ paused = TRUE
    /\ volume = FullVolume
    /\ playbackRate \in 0..(MaxRateInput * RateSubdivisions)
    /\ present = WebkitBrowser

NextSpeed ==
    \/ IncreaseSpeed /\ UNCHANGED steps
    \/ DecreaseSpeed /\ UNCHANGED steps

SpecSpeed == InitSpeed /\ [][NextSpeed]_vars

----------------------------------------------------------------------------
(* The fullscreen methods and the mouse listeners, in every browser: every  *)
(* set of vendor-prefixed properties the element and its document may have  *)

InitFullScreen ==
    /\ Constructed
    /\ paused \in BOOLEAN
    /\ volume = FullVolume
    /\ playbackRate = NormalRate
    /\ present \in SUBSET VendorProperties

NextFullScreen ==
    \/ Counted(ToggleFullScreenMode)
    \/ Counted(EnterFullScreenMode)
    \/ Counted(ExitFullScreenMode)
    \/ \E quick \in BOOLEAN : Counted(Click(quick))
    \/ Counted(DblClick)
    \/ Tick /\ UNCHANGED steps
    \/ Timeout /\ UNCHANGED steps

SpecFullScreen == InitFullScreen /\ [][NextFullScreen]_vars

----------------------------------------------------------------------------
(* The claims *)

Range(seq) == {seq[i] : i \in DOMAIN seq}

Visible(feedback) == cssText[feedback] = ""

\* x rounded to 2 decimals, half up: the multiple r of 0.01 with
\* r - 0.005 <= x < r + 0.005
RoundHalfUp2(x) ==
    CHOOSE r \in {k * VolumeSubdivisions : k \in (0 - 10)..110} :
        /\ 2 * r - VolumeSubdivisions <= 2 * x
        /\ 2 * x < 2 * r + VolumeSubdivisions

\* C1: from every volume v in [0,1], increaseVolumeBy5Percent sets the volume
\* to min(round2(v + 0.05), 1) and decreaseVolumeBy5Percent sets it to
\* max(0, round2(v - 0.05)), round2 rounding half up to 2 decimals; and the
\* volume is within [0,1] after any sequence of the two.
C1_VolumeRoundedAndClamped ==
    /\ [](volume \in 0..FullVolume)
    /\ [][/\ lastOp' = "increaseVolumeBy5Percent" =>
                volume' = Min(RoundHalfUp2(volume + 5 * VolumeSubdivisions), FullVolume)
          /\ lastOp' = "decreaseVolumeBy5Percent" =>
                volume' = Max(0, RoundHalfUp2(volume - 5 * VolumeSubdivisions))]_vars

\* C1's case: increaseVolumeBy5Percent has run and the clamp has cut the sum to 1.0
C1_Witness ==
    /\ lastOp = "increaseVolumeBy5Percent"
    /\ volume = FullVolume

SpeedRange == RateSubdivisions..(8 * RateSubdivisions)

\* C2 as stated: after increaseSpeed or decreaseSpeed, whatever playback rate
\* the element held before the call, the rate is within [0.25, 2.0].
C2_RateInRangeFromAnyRate ==
    lastOp \in {"increaseSpeed", "decreaseSpeed"} => playbackRate \in SpeedRange

\* C2 as amended: increaseSpeed leaves the rate at most 2.0, and at least 0.25
\* when the rate before was not negative; decreaseSpeed leaves the rate at
\* least 0.25, and at most 2.0 when the rate before was at most 2.25; so from
\* a rate within [0.25, 2.0] both leave it within [0.25, 2.0]; and
\* increaseSpeed at 2.0 leaves the rate at 2.0.
C2_RateClampedOnOneSide ==
    [][/\ lastOp' = "increaseSpeed" =>
            /\ playbackRate' <= 8 * RateSubdivisions
            /\ playbackRate >= 0 => playbackRate' >= RateSubdivisions
            /\ playbackRate = 8 * RateSubdivisions => playbackRate' = playbackRate
       /\ lastOp' = "decreaseSpeed" =>
            /\ playbackRate' >= RateSubdivisions
            /\ playbackRate <= 9 * RateSubdivisions =>
                    playbackRate' <= 8 * RateSubdivisions
       /\ lastOp' \in {"increaseSpeed", "decreaseSpeed"} /\ playbackRate \in SpeedRange =>
            playbackRate' \in SpeedRange]_vars

\* C2's case: increaseSpeed has run and the rate is at the upper end, 2.0
C2_Witness ==
    /\ lastOp = "increaseSpeed"
    /\ playbackRate = 8 * RateSubdivisions

\* C3: every call of togglePlayPause (by a caller, or by the click listener)
\* flips the play state (it plays a paused video, pauses a playing one) and
\* then dispatches exactly one togglePlayPause event, after the play state has
\* changed.
C3_ToggleFlipsThenDispatches ==
    [][lastOp' \in {"togglePlayPause", "click"} =>
            /\ paused' = ~paused
            /\ trace' = <<"togglePlayPause", IF paused THEN "play" ELSE "pause",
                          "dispatchEvent">>]_vars

\* C3's case: togglePlayPause has played a paused video and dispatched the event
C3_Witness ==
    /\ lastOp = "togglePlayPause"
    /\ ~paused
    /\ trace = <<"togglePlayPause", "play", "dispatchEvent">>

\* C4: in every reachable state at most one of the two feedback icons is
\* visible; exactly one is visible during the 500 ms after a toggle (while a
\* toggle's timer is pending) and both are hidden otherwise.
C4_OneIconDuringDelay ==
    /\ ~(Visible("pauseFeedback") /\ Visible("playFeedback"))
    /\ timers # <<>> => \E f \in Feedbacks : Visible(f)
    /\ timers = <<>> => \A f \in Feedbacks : ~Visible(f)

\* C5: the icon a togglePlayPause event made visible is hidden again once the
\* 500 ms have elapsed, and not before they have elapsed since that event:
\* while an event's timer is pending, its icon is visible, and when no timer
\* is pending both icons are hidden.
C5_HiddenAfterDelayNotBefore ==
    /\ \A i \in DOMAIN timers : Visible(timers[i].feedback)
    /\ timers = <<>> => \A f \in Feedbacks : ~Visible(f)

\* the icon that is not f
Other(f) == CHOOSE g \in Feedbacks : g # f

\* C6: when a togglePlayPause event is handled, the icon made visible is the
\* pause icon if the video is paused at that moment and the play icon
\* otherwise; the handler does not make the other icon visible.
C6_IconFollowsPausedFlag ==
    [][lastOp' \in {"togglePlayPause", "click"} =>
            LET f == IF paused' THEN "pauseFeedback" ELSE "playFeedback"
            IN  /\ cssText'[f] = ""
                /\ cssText'[Other(f)] = cssText[Other(f)]
                /\ timers' = Append(timers, [feedback |-> f, remaining |-> FeedbackDelay])]_vars

\* C6's case: a toggle has paused the video; the pause icon alone is visible
C6_Witness ==
    /\ lastOp = "togglePlayPause"
    /\ paused
    /\ Visible("pauseFeedback")
    /\ ~Visible("playFeedback")

\* C7: each load failure of the source makes exactly one call of
\* showFailureMessage, and no other operation (nor the construction) calls it.
C7_OneFailureMessagePerLoadFailure ==
    /\ [](shown = errors)
    /\ [][IF lastOp' = "error"
          THEN shown' = shown + 1 /\ trace' = <<"showFailureMessage">>
          ELSE shown' = shown /\ "showFailureMessage" \notin Range(trace')]_vars

\* C7's case: the source has failed twice, among other operations
C7_Witness ==
    /\ lastOp = "error"
    /\ errors = 2
    /\ shown = 2
    /\ steps > 2

\* C8: toggleFullScreenMode, and the dblclick listener, call exitFullScreenMode
\* when the document is in fullscreen and enterFullScreenMode when it is not,
\* for every set of vendor-prefixed properties of the document.
C8_ToggleFollowsFullscreenState ==
    [][lastOp' \in {"toggleFullScreenMode", "dblclick"} =>
            /\ fullscreen => "exitFullScreenMode" \in Range(trace')
            /\ ~fullscreen => "enterFullScreenMode" \in Range(trace')]_vars

\* the vendor of a vendor-prefixed function, and the order they are tried in
Vendor(name) ==
    IF name \in {"webkitRequestFullscreen", "webkitRequestFullScreen", "webkitExitFullscreen"}
    THEN 1
    ELSE IF name \in {"mozRequestFullScreen", "mozCancelFullScreen"} THEN 2 ELSE 3

\* the vendor function a call of kind `functions` is to invoke, if any
FirstPresent(functions) ==
    {f \in functions \cap present :
        \A g \in functions \cap present : Vendor(f) <= Vendor(g)}

\* C9: enterFullScreenMode and exitFullScreenMode invoke only a vendor-prefixed
\* function that is present, the first present one in the order webkit, moz,
\* ms; when none is present nothing is invoked; and no call ends in an error.
C9_OnlyPresentFunctionInvoked ==
    lastOp \in {"enterFullScreenMode", "exitFullScreenMode"} =>
        LET functions == IF lastOp = "enterFullScreenMode"
                         THEN RequestFunctions ELSE ExitFunctions
            invoked == Range(trace) \ {lastOp}
        IN  /\ "TypeError" \notin invoked
            /\ invoked \subseteq FirstPresent(functions)
            /\ Cardinality(invoked) = IF functions \cap present = {} THEN 0 ELSE 1

FullScreenMethods == {"toggleFullScreenMode", "enterFullScreenMode", "exitFullScreenMode"}

====
